---------------------------- MODULE Spec2Model ----------------------------
(***************************************************************************)
(* Model of the HackOHire early-warning dashboard:                         *)
(*   - the backend client (src/src/lib/backendApi.ts): fetchWithTimeout,   *)
(*     normalizeFetchError and the eleven exported operations;             *)
(*   - the e-mail relay (src/server/emailServer.js);                       *)
(*   - the risk bucketing helpers of the pages.                            *)
(* Each component has its own specification (SpecClient, SpecRelay,        *)
(* SpecBucket); the variables of the other components stay at their        *)
(* initial value.                                                          *)
(***************************************************************************)
EXTENDS Integers, Sequences, FiniteSets, TLC

VARIABLES
    calls,      \* backend client: one record per call of an exported operation
    env,        \* relay: process.env as read at module load
    inflight,   \* relay: requests suspended at `await transporter.sendMail`
    answered,   \* relay: the request answered last, with its response
    received,   \* relay: number of requests received so far
    prob,       \* bucketing: the probability handed to the helper (grid steps)
    level,      \* bucketing: the level the helper returned
    mock,       \* mockData.ts: the module-level customers array while it is built
    gen,        \* mockData.ts: one invocation of generateCustomer
    series,     \* mockData.ts: one invocation of generateTimeSeries
    page,       \* a page component: its React state and liveness
    reqs,       \* a page component: the backend calls it has in flight
    alerts,     \* AlertsPage: the inputs and the result of alertCustomers
    contrib     \* RiskExplorerPage: the drilldown and its contributingSeries

vars ==
    <<calls, env, inflight, answered, received, prob, level,
      mock, gen, series, page, reqs, alerts, contrib>>

clientVars == <<calls>>
relayVars == <<env, inflight, answered, received>>
bucketVars == <<prob, level>>
mockVars == <<mock, gen, series>>
pageVars == <<page, reqs>>
derivedVars == <<alerts, contrib>>
laterVars == <<mockVars, pageVars, derivedVars>>

(***************************************************************************)
(* Bounds of the model.                                                    *)
(***************************************************************************)
MaxCalls == 2
MaxRequests == 2
Grid == 100
RandGrid == 94
MaxDays == 2
MaxFetches == 4
MaxCustomers == 3
MaxFeatures == 3

(***************************************************************************)
(*                    BACKEND CLIENT  (backendApi.ts)                      *)
(***************************************************************************)
REQUEST_TIMEOUT_MS == 8000

TIMEOUT_MESSAGE ==
    "Backend request timed out. Ensure FastAPI is running on http://localhost:8000"

\* The exported operations.
Ops ==
    { "checkBackendHealth", "getCustomerList", "getCustomerData", "predictRisk",
      "getPortfolioSummary", "getRiskTrend", "getFeatureImportance",
      "getPortfolioHeatmap", "getCustomerRiskList", "getCustomerDrilldown",
      "predictAndSendIntervention" }

\* The operations whose !response.ok branch reads the body (error.detail) and
\* whose catch block rethrows an Error unchanged.
DetailOps ==
    { "getCustomerData", "predictRisk", "getCustomerDrilldown",
      "predictAndSendIntervention" }

\* The fallback string each operation passes to normalizeFetchError.
Fallback(op) ==
    CASE op = "checkBackendHealth" ->
           "Unable to connect to backend. Ensure FastAPI server is running on http://localhost:8000"
      [] op = "getCustomerList" -> "Unable to retrieve customer list from backend"
      [] op = "getCustomerData" -> "Failed to retrieve customer data"
      [] op = "predictRisk" -> "Prediction failed"
      [] op = "getPortfolioSummary" -> "Failed to load portfolio summary"
      [] op = "getRiskTrend" -> "Failed to load risk trend data"
      [] op = "getFeatureImportance" -> "Failed to load feature importance"
      [] op = "getPortfolioHeatmap" -> "Failed to load heatmap data"
      [] op = "getCustomerRiskList" -> "Failed to load customer risk list"
      [] op = "getCustomerDrilldown" -> "Failed to load customer drilldown"
      [] op = "predictAndSendIntervention" -> "Prediction and intervention failed"

\* What the backend can answer: a status line and a body.
Statuses == {200, 404, 500}

ResponseOk(status) == status >= 200 /\ status <= 299

HttpMessage(status) ==
    CASE status = 200 -> "HTTP 200"
      [] status = 404 -> "HTTP 404"
      [] status = 500 -> "HTTP 500"

\* Bodies: a JSON object with a non-empty detail, a JSON object with an empty
\* detail, a JSON object without detail (the data of a success), the JSON value
\* null, and a body that is not JSON.
Bodies ==
    { [kind |-> "object", detail |-> "not found"],
      [kind |-> "object", detail |-> ""],
      [kind |-> "object", detail |-> "undefined"],
      [kind |-> "null", detail |-> "undefined"],
      [kind |-> "malformed", detail |-> "undefined"] }

NoBody == [kind |-> "none", detail |-> "undefined"]

\* JavaScript truthiness of error.detail
Truthy(v) == v # "" /\ v # "undefined"

\* Thrown values: class (for instanceof), name and message.
ErrorClasses == {"Error", "TypeError", "SyntaxError", "DOMException"}

MkError(cls, name, message) == [cls |-> cls, name |-> name, message |-> message]

\* `error instanceof Error`: every class above has Error.prototype in its chain
InstanceOfError(e) == e.cls \in ErrorClasses

AbortError == MkError("DOMException", "AbortError", "The user aborted a request.")
RequestTimeoutError == MkError("Error", "Error", "REQUEST_TIMEOUT")
NetworkError == MkError("TypeError", "TypeError", "Failed to fetch")
JsonSyntaxError == MkError("SyntaxError", "SyntaxError", "Unexpected token < in JSON")
NullDetailError ==
    MkError("TypeError", "TypeError", "Cannot read properties of null (reading 'detail')")

\* What rejects the race when the timer fires: the callback first aborts the
\* fetch (which rejects with an AbortError) and then rejects timeoutPromise;
\* which rejection the race observes first depends on the platform.
TimeoutRejections == {AbortError, RequestTimeoutError}

normalizeFetchError(error, fallback) ==
    IF error.cls = "DOMException" /\ error.name = "AbortError"
    THEN MkError("Error", "Error", TIMEOUT_MESSAGE)
    ELSE IF InstanceOfError(error) /\ error.message = "REQUEST_TIMEOUT"
    THEN MkError("Error", "Error", TIMEOUT_MESSAGE)
    ELSE MkError("Error", "Error", fallback)

IdleCall ==
    [ op |-> "none", pc |-> "idle", timer |-> "none", delay |-> 0,
      aborted |-> FALSE, fetches |-> 0, winner |-> "none",
      status |-> 0, body |-> NoBody,
      outcome |-> "pending", message |-> "", from |-> 0 ]

\* fetchWithTimeout up to the await of the race: the timer is armed and the one
\* fetch is issued.
StartFetch(call, op) ==
    [ call EXCEPT !.op = op, !.pc = "fetching", !.timer = "pending",
                  !.delay = REQUEST_TIMEOUT_MS, !.fetches = call.fetches + 1 ]

TimeoutCallbackWithoutAbort(call) ==
    [ call EXCEPT !.timer = "fired" ]

\* The setTimeout callback: controller.abort(); reject(new Error("REQUEST_TIMEOUT"))
TimeoutCallback(call) ==
    [ call EXCEPT !.timer = "fired", !.aborted = TRUE ]

FinallyWithoutClearTimeout(call) == call

\* The finally block: clearTimeout(timeoutId). Clearing a timer that has fired
\* changes nothing.
FinallyClearTimeout(call) ==
    IF call.timer = "pending" THEN [call EXCEPT !.timer = "cleared"] ELSE call

Resolve(call, id) ==
    [ call EXCEPT !.pc = "done", !.outcome = "resolved", !.from = id ]

Reject(call, error) ==
    [ call EXCEPT !.pc = "done", !.outcome = "rejected", !.message = error.message ]

\* Variants of the catch block: one that never rethrows the caught Error and
\* one that issues the request again.
CatchBlockAlwaysNormalizes(call, error) ==
    Reject(call, normalizeFetchError(error, Fallback(call.op)))

CatchBlockRetries(call, error) ==
    IF call.fetches < 2
    THEN [ call EXCEPT !.pc = "fetching", !.timer = "pending",
                       !.fetches = call.fetches + 1 ]
    ELSE Reject(call, normalizeFetchError(error, Fallback(call.op)))

\* Variant: every operation rethrows what it caught.
CatchBlockRethrows(call, error) == Reject(call, error)

\* The catch block of an exported operation.
CatchBlock(call, error) ==
    IF call.op \in DetailOps
    THEN IF InstanceOfError(error)
         THEN Reject(call, error)
         ELSE Reject(call, normalizeFetchError(error, Fallback(call.op)))
    ELSE Reject(call, normalizeFetchError(error, Fallback(call.op)))

\* The code after `await fetchWithTimeout(...)` returned a response.
AfterResponse(call) ==
    IF ~ResponseOk(call.status) /\ call.op \notin DetailOps
    THEN CatchBlock(call, MkError("Error", "Error", HttpMessage(call.status)))
    ELSE [call EXCEPT !.pc = "json"]

\* The code after `await response.json()` returned the parsed body.
AfterJson(call, id) ==
    IF ResponseOk(call.status)
    THEN Resolve(call, id)
    ELSE IF call.body.kind = "null"
    THEN CatchBlock(call, NullDetailError)
    ELSE CatchBlock(call,
            MkError("Error", "Error",
                    IF Truthy(call.body.detail) THEN call.body.detail
                    ELSE HttpMessage(call.status)))

CallIds == 1 .. MaxCalls

\* A page calls an exported operation.
CallOperation(c, op) ==
    /\ calls[c].pc = "idle"
    /\ c > 1 => calls[c - 1].pc # "idle"
    /\ calls' = [calls EXCEPT ![c] = StartFetch(calls[c], op)]
    /\ UNCHANGED <<relayVars, bucketVars, laterVars>>

\* The backend's response (status line and headers) arrives: fetch resolves,
\* the race resolves with it, finally runs, the operation goes on.
FetchResponds(c, status, body) ==
    /\ calls[c].pc = "fetching"
    /\ calls' = [calls EXCEPT ![c] =
          AfterResponse(FinallyClearTimeout(
              [calls[c] EXCEPT !.winner = "fetch", !.status = status, !.body = body]))]
    /\ UNCHANGED <<relayVars, bucketVars, laterVars>>

\* The network fails: fetch rejects with a TypeError.
FetchFails(c) ==
    /\ calls[c].pc = "fetching"
    /\ calls' = [calls EXCEPT ![c] =
          CatchBlock(FinallyClearTimeout([calls[c] EXCEPT !.winner = "fetch"]),
                     NetworkError)]
    /\ UNCHANGED <<relayVars, bucketVars, laterVars>>

\* The timer of call c fires.  While the race is pending its rejection decides
\* the race; afterwards only the abort has an effect.
TimerFires(c, rejection) ==
    /\ calls[c].timer = "pending"
    /\ calls' = [calls EXCEPT ![c] =
          IF calls[c].pc = "fetching"
          THEN CatchBlock(FinallyClearTimeout(
                  [TimeoutCallback(calls[c]) EXCEPT !.winner = "timer"]), rejection)
          ELSE TimeoutCallback(calls[c])]
    /\ UNCHANGED <<relayVars, bucketVars, laterVars>>

\* response.json() settles: with the parsed value, or with a SyntaxError.
JsonSettles(c) ==
    /\ calls[c].pc = "json"
    /\ calls' = [calls EXCEPT ![c] =
          IF calls[c].body.kind = "malformed"
          THEN CatchBlock(calls[c], JsonSyntaxError)
          ELSE AfterJson(calls[c], c)]
    /\ UNCHANGED <<relayVars, bucketVars, laterVars>>

\* No operation called yet.
IdleCalls == [c \in CallIds |-> IdleCall]

NextClient ==
    \/ \E c \in CallIds, op \in Ops : CallOperation(c, op)
    \/ \E c \in CallIds, s \in Statuses, b \in Bodies : FetchResponds(c, s, b)
    \/ \E c \in CallIds : FetchFails(c)
    \/ \E c \in CallIds, r \in TimeoutRejections : TimerFires(c, r)
    \/ \E c \in CallIds : JsonSettles(c)

(***************************************************************************)
(*                    E-MAIL RELAY  (server/emailServer.js)                *)
(***************************************************************************)
DEFAULT_FIXED_TO == "sohamjagushte2@gmail.com"

\* process.env: each variable is unset/empty ("") or set.
EnvValues ==
    [ SMTP_HOST : {"", "smtp.example.com"},
      SMTP_USER : {"", "relay-user"},
      SMTP_PASS : {"", "secret"},
      SMTP_FROM : {"", "noreply@bank.example"},
      FIXED_TO_ADDRESS : {"", "risk-desk@bank.example"} ]

\* const FIXED_TO_ADDRESS = process.env.FIXED_TO_ADDRESS || "sohamjagushte2@gmail.com"
FIXED_TO_ADDRESS ==
    IF Truthy(env.FIXED_TO_ADDRESS) THEN env.FIXED_TO_ADDRESS ELSE DEFAULT_FIXED_TO

\* const smtpConfig = { host, auth: {user, pass}, from: SMTP_FROM || SMTP_USER }
smtpConfig ==
    [ host |-> env.SMTP_HOST,
      user |-> env.SMTP_USER,
      pass |-> env.SMTP_PASS,
      from |-> IF Truthy(env.SMTP_FROM) THEN env.SMTP_FROM ELSE env.SMTP_USER ]

\* Variant: the password is not checked.
hasMissingSmtpConfigNoPass ==
    ~Truthy(smtpConfig.host) \/ ~Truthy(smtpConfig.user) \/ ~Truthy(smtpConfig.from)

hasMissingSmtpConfig ==
    \/ ~Truthy(smtpConfig.host)
    \/ ~Truthy(smtpConfig.user)
    \/ ~Truthy(smtpConfig.pass)
    \/ ~Truthy(smtpConfig.from)

\* A field of req.body: absent ("undefined"), the empty string, or a value.
\* `email` is an address the request carries; the handler never reads it.
RequestBodies ==
    [ customerId : {"undefined", "", "CUST_001"},
      customerName : {"undefined", "", "Asha Rao"},
      topSignal : {"undefined", "", "Salary Delay"},
      selectedIntervention : {"undefined", "", "Payment Holiday"},
      officerNotes : {"undefined", "Call before noon"},
      email : {"customer@example.com"} ]

MessageIds == {"<msg-1@smtp.example.com>"}
\* What a rejected sendMail throws: nodemailer rejects with Error objects.
SmtpErrors ==
    { MkError("Error", "Error", "Invalid login: 535 Authentication failed"),
      MkError("Error", "Error", "Connection timeout") }

\* Variant: selectedIntervention is not checked.
MissingRequiredFieldsNoIntervention(body) ==
    \/ ~Truthy(body.customerId)
    \/ ~Truthy(body.customerName)
    \/ ~Truthy(body.topSignal)

\* if (!customerId || !customerName || !topSignal || !selectedIntervention)
MissingRequiredFields(body) ==
    \/ ~Truthy(body.customerId)
    \/ ~Truthy(body.customerName)
    \/ ~Truthy(body.topSignal)
    \/ ~Truthy(body.selectedIntervention)

NoMail == [from |-> "", to |-> "", subject |-> <<>>, notes |-> FALSE]

NewRequest(id, body) ==
    [ id |-> id, body |-> body, sends |-> 0, mail |-> NoMail,
      sendResult |-> "none", providerSaid |-> "",
      responses |-> 0, status |-> 0, text |-> "", json |-> <<>> ]

NoRequest == NewRequest(0, [customerId |-> "undefined", customerName |-> "undefined",
                            topSignal |-> "undefined",
                            selectedIntervention |-> "undefined",
                            officerNotes |-> "undefined", email |-> ""])

\* Variant: res.send(text), which answers with status 200.
SendTextWithoutStatus(req, status, text) ==
    [ req EXCEPT !.responses = @ + 1, !.status = 200, !.text = text ]

\* res.status(s).send(text)
SendText(req, status, text) ==
    [ req EXCEPT !.responses = @ + 1, !.status = status, !.text = text ]

\* res.json(value): status 200
SendJson(req, value) ==
    [ req EXCEPT !.responses = @ + 1, !.status = 200, !.json = value ]

\* Variant: the mail goes to the address the request carries.
SendMailToRequestAddress(req) ==
    [ req EXCEPT !.sends = @ + 1,
                 !.mail = [ from |-> smtpConfig.from, to |-> req.body.email,
                            subject |-> <<"Support Options Available", req.body.customerId>>,
                            notes |-> Truthy(req.body.officerNotes) ] ]

\* transporter.sendMail({from: smtpConfig.from, to: FIXED_TO_ADDRESS, subject, text, html})
SendMail(req) ==
    [ req EXCEPT !.sends = @ + 1,
                 !.mail = [ from |-> smtpConfig.from, to |-> FIXED_TO_ADDRESS,
                            subject |-> <<"Support Options Available", req.body.customerId>>,
                            notes |-> Truthy(req.body.officerNotes) ] ]

\* return res.json({ messageId: info.messageId, to: FIXED_TO_ADDRESS })
OnSendResolved(req, messageId) ==
    SendJson([req EXCEPT !.sendResult = "sent", !.providerSaid = messageId],
             <<messageId, FIXED_TO_ADDRESS>>)

\* Variant: a failed send is attempted once more before answering.
OnSendRejectedRetry(req, error) ==
    SendText(SendMail([req EXCEPT !.sendResult = "failed",
                                  !.providerSaid = error.message]),
             500, error.message)

\* catch (error): message = error instanceof Error ? error.message
\* : "SMTP send failed"; res.status(500).send(message)
OnSendRejected(req, error) ==
    SendText([req EXCEPT !.sendResult = "failed", !.providerSaid = error.message],
             500,
             IF InstanceOfError(error) THEN error.message ELSE "SMTP send failed")

\* POST /api/send-intervention, up to its first suspension or its response.
ReceiveRequest(body) ==
    /\ received < MaxRequests
    /\ received' = received + 1
    /\ LET req == NewRequest(received + 1, body) IN
         IF hasMissingSmtpConfig
         THEN /\ answered' = SendText(req, 500, "Missing SMTP configuration in .env")
              /\ UNCHANGED inflight
         ELSE IF MissingRequiredFields(body)
         THEN /\ answered' = SendText(req, 400, "Missing required email fields")
              /\ UNCHANGED inflight
         ELSE /\ inflight' = inflight \cup {SendMail(req)}
              /\ UNCHANGED answered
    /\ UNCHANGED <<env, clientVars, bucketVars, laterVars>>

\* The SMTP provider accepts the message: sendMail resolves with its id.
SmtpAccepts(r, messageId) ==
    /\ r \in inflight
    /\ inflight' = inflight \ {r}
    /\ answered' = OnSendResolved(r, messageId)
    /\ UNCHANGED <<env, received, clientVars, bucketVars, laterVars>>

\* The SMTP provider fails: sendMail rejects with an Error.
SmtpRejects(r, error) ==
    /\ r \in inflight
    /\ inflight' = inflight \ {r}
    /\ answered' = OnSendRejected(r, error)
    /\ UNCHANGED <<env, received, clientVars, bucketVars, laterVars>>

\* The environment of a process that is not the relay.
NoEnv ==
    [ SMTP_HOST |-> "", SMTP_USER |-> "", SMTP_PASS |-> "", SMTP_FROM |-> "",
      FIXED_TO_ADDRESS |-> "" ]

NextRelay ==
    \/ \E b \in RequestBodies : ReceiveRequest(b)
    \/ \E r \in inflight, m \in MessageIds : SmtpAccepts(r, m)
    \/ \E r \in inflight, e \in SmtpErrors : SmtpRejects(r, e)

(***************************************************************************)
(*                    RISK BUCKETING  (pages)                              *)
(***************************************************************************)
\* A probability p in [0,1] is k / Grid for k in 0..Grid; pct = 100 * k / Grid.

\* AlertsPage.tsx, getDelinquencyRiskLevel: pct >= 75, pct >= 40
getDelinquencyRiskLevel(k) ==
    IF 100 * k >= 75 * Grid THEN "High Risk"
    ELSE IF 100 * k >= 40 * Grid THEN "Medium Risk"
    ELSE "Low Risk"

\* The classification rule the prediction view and the integration guide print:
\* LOW 0% - 39%, MEDIUM 40% - 69%, HIGH 70% - 100%.
RiskClassificationLogic(k) ==
    IF 100 * k >= 70 * Grid THEN "HIGH"
    ELSE IF 100 * k >= 40 * Grid THEN "MEDIUM"
    ELSE "LOW"

Classify(k) ==
    /\ prob' = k
    /\ level' = [shown |-> getDelinquencyRiskLevel(k),
                 documented |-> RiskClassificationLogic(k)]
    /\ UNCHANGED <<clientVars, relayVars, laterVars>>

NoLevel == [shown |-> "none", documented |-> "none"]

NextBucket == \E k \in 0 .. Grid : Classify(k)

(***************************************************************************)
(*                    SYNTHETIC DATA  (lib/mockData.ts)                    *)
(***************************************************************************)
\* Math.random() returns k / RandGrid for some k in 0 .. RandGrid - 1, a number
\* in [0, 1).
Draws == 0 .. RandGrid - 1

\* Variant: the offset min is forgotten.
randWithoutMin(min, max, k) == (k * (max - min + 1)) \div RandGrid

\* rand(min, max) = Math.floor(Math.random() * (max - min + 1)) + min
rand(min, max, k) == ((k * (max - min + 1)) \div RandGrid) + min

\* pickRandom(arr) = arr[rand(0, arr.length - 1)]   (arr is 1-based here)
pickRandom(arr, k) == arr[rand(0, Len(arr) - 1, k) + 1]

\* Variant: the thresholds of the backend categories (70 and 40).
getRiskCategoryBackendThresholds(score) ==
    IF score >= 70 THEN "High"
    ELSE IF score >= 40 THEN "Moderate"
    ELSE "Low"

getRiskCategory(score) ==
    IF score >= 75 THEN "High"
    ELSE IF score >= 50 THEN "Moderate"
    ELSE IF score >= 30 THEN "Early Stress"
    ELSE "Low"

\* const statuses = ["none", "none", "none", "offered", "accepted", "declined"]
InterventionStatusChoices ==
    <<"none", "none", "none", "offered", "accepted", "declined">>

\* Array.from({ length: 120 }, (_, i) => generateCustomer(i))
CUSTOMER_COUNT == 120

\* Before the module is loaded.
NoMock == [pc |-> "unloaded", length |-> 0, riskScore |-> 0, riskCategory |-> "none"]
NoGen ==
    [ pc |-> "idle", index |-> 0, riskScore |-> 0, riskCategory |-> "none",
      interventionStatus |-> "none", interventionHistory |-> <<>>, daysPastDue |-> 0 ]
NoSeries ==
    [ pc |-> "idle", days |-> 0, volatility |-> 0, trend |-> 0, i |-> 0,
      value |-> 0, length |-> 0, last |-> 0 ]

\* ---- the module-level customers array ----
\* The module starts to load: Array.from begins with an empty array.
LoadModule ==
    /\ mock.pc = "unloaded"
    /\ mock' = [mock EXCEPT !.pc = "loading"]
    /\ UNCHANGED <<clientVars, relayVars, bucketVars, gen, series, pageVars, derivedVars>>

\* Array.from calls generateCustomer(length) and stores the record; of the
\* record, the array model keeps riskScore and riskCategory of the element
\* stored last.  With the last element the export becomes visible.
ArrayFromStep(k) ==
    /\ mock.pc = "loading"
    /\ mock.length < CUSTOMER_COUNT
    /\ mock' = [ pc |-> IF mock.length + 1 = CUSTOMER_COUNT THEN "loaded" ELSE "loading",
                 length |-> mock.length + 1,
                 riskScore |-> rand(5, 98, k),
                 riskCategory |-> getRiskCategory(rand(5, 98, k)) ]
    /\ UNCHANGED <<clientVars, relayVars, bucketVars, gen, series, pageVars, derivedVars>>

NextMock ==
    \/ LoadModule
    \/ \E k \in Draws : ArrayFromStep(k)

\* ---- generateCustomer(index) ----
\* Only the fields the checked properties read are kept: riskScore,
\* riskCategory, interventionStatus, interventionHistory and daysPastDue; the
\* other draws (names, balances, trends) do not feed into them.

\* Variant: the record is pushed whatever the status.
HistoryForAnyStatus(interventionStatus) ==
    << [ type |-> "intervention", status |-> interventionStatus ] >>

\* A status other than "none" pushes one record onto history.
HistoryFor(interventionStatus) ==
    IF interventionStatus # "none"
    THEN << [ type |-> "intervention", status |-> interventionStatus ] >>
    ELSE <<>>

\* const riskScore = rand(5, 98); riskCategory = getRiskCategory(riskScore);
\* interventionStatus = riskScore > 50 ? pickRandom(statuses) : "none"
\* (the draw of pickRandom is the next step when riskScore > 50)
DrawRiskScore(k) ==
    /\ gen.pc = "riskScore"
    /\ LET riskScore == rand(5, 98, k) IN
         gen' = [ gen EXCEPT !.riskScore = riskScore,
                             !.riskCategory = getRiskCategory(riskScore),
                             !.interventionStatus = "none",
                             !.interventionHistory = HistoryFor("none"),
                             !.pc = IF riskScore > 50 THEN "interventionStatus"
                                    ELSE "daysPastDue" ]
    /\ UNCHANGED <<clientVars, relayVars, bucketVars, mock, series, pageVars, derivedVars>>

DrawInterventionStatus(k) ==
    /\ gen.pc = "interventionStatus"
    /\ LET interventionStatus == pickRandom(InterventionStatusChoices, k) IN
         gen' = [ gen EXCEPT !.interventionStatus = interventionStatus,
                             !.interventionHistory = HistoryFor(interventionStatus),
                             !.pc = "daysPastDue" ]
    /\ UNCHANGED <<clientVars, relayVars, bucketVars, mock, series, pageVars, derivedVars>>

\* daysPastDue: riskScore > 60 ? rand(0, 30) : 0, and the record is returned.
DrawDaysPastDue(k) ==
    /\ gen.pc = "daysPastDue"
    /\ gen' = [ gen EXCEPT !.daysPastDue = IF gen.riskScore > 60 THEN rand(0, 30, k) ELSE 0,
                           !.pc = "returned" ]
    /\ UNCHANGED <<clientVars, relayVars, bucketVars, mock, series, pageVars, derivedVars>>

\* ---- generateTimeSeries(days, base, volatility, trend) ----
\* base, volatility and trend are given in hundredths.  The running value is
\* kept in ticks, Ticks to the hundredth, so that the term
\* (Math.random() - 0.5) * volatility = (2k - RandGrid) * volatility ticks
\* is exact.
Ticks == 2 * RandGrid

Bases == {-2, 0, 3}
Volatilities == {0, 4}
Trends == {-2, 0, 1}

\* Variant: no clamp.
MathMaxZeroMissing(value) == value

\* Math.max(0, value)
MathMaxZero(value) == IF value < 0 THEN 0 ELSE value

\* parseFloat(value.toFixed(2)): the nearest hundredth (value is never
\* negative where it is called).
toFixed2(value) == (2 * value + Ticks) \div (2 * Ticks)

\* One iteration of  for (let i = days; i >= 0; i--): the value moves, is
\* clamped and its rounding is pushed; of data, the length and the point pushed
\* last are kept.  After the iteration with i = 0 the array is returned.
SeriesStep(k) ==
    /\ series.pc = "loop"
    /\ series.i >= 0
    /\ LET value == MathMaxZero(series.value + series.trend * Ticks
                                  + (2 * k - RandGrid) * series.volatility) IN
         series' = [ series EXCEPT !.value = value,
                                   !.last = toFixed2(value),
                                   !.length = series.length + 1,
                                   !.i = series.i - 1,
                                   !.pc = IF series.i = 0 THEN "returned" ELSE "loop" ]
    /\ UNCHANGED <<clientVars, relayVars, bucketVars, mock, gen, pageVars, derivedVars>>

NextSeries == \E k \in Draws : SeriesStep(k)

NextCustomer ==
    \/ \E k \in Draws : DrawRiskScore(k)
    \/ \E k \in Draws : DrawInterventionStatus(k)
    \/ \E k \in Draws : DrawDaysPastDue(k)

(***************************************************************************)
(*                    PAGES                                                *)
(***************************************************************************)
\* The six page orchestrators.
Pages ==
    { "Dashboard", "PortfolioDrift", "RiskExplorer", "Alerts", "Explainability",
      "Prediction" }

\* The customers the backend knows, and the lists it answers with.
CustomerIds == {"CUST_1", "CUST_2"}
CustomerLists == { <<>>, <<"CUST_1", "CUST_2">> }

Range(s) == { s[i] : i \in DOMAIN s }

\* The fetches of each page's mount effect, issued inside one Promise.all (or
\* alone).  PredictionPage's mount effect calls loadCustomers instead.
MountOps(kind) ==
    CASE kind = "Dashboard" -> {"getPortfolioSummary", "getPortfolioHeatmap"}
      [] kind = "PortfolioDrift" ->
           {"getPortfolioHeatmap", "getRiskTrend", "getPortfolioSummary"}
      [] kind = "RiskExplorer" -> {"getCustomerRiskList"}
      [] kind = "Alerts" -> {"getCustomerRiskList"}
      [] kind = "Explainability" -> {"getFeatureImportance", "getCustomerRiskList"}
      [] OTHER -> {}

\* How a backend call fails here: the network fails or the timer wins.  The
\* message is the one the operation's catch block rejects with; it is always an
\* Error, so the pages' `err instanceof Error ? err.message : ...` takes it.
RejectionCauses == {NetworkError, RequestTimeoutError}
RejectionMessage(op, error) == CatchBlock(StartFetch(IdleCall, op), error).message

NoSource == [op |-> "none", arg |-> "", at |-> 0]

\* The useState initial values of a page.  selectedId also stands for
\* PredictionPage's selectedCustomer.  settled, fulfilled and held are the
\* state of the mount effect's promise, rejections the messages of the mount
\* fetches that failed, in order; errorSource records which request set
\* the error and how many fetches had been issued by then, successAfterError
\* whether a fetch succeeded since, drilldownFrom which fetch the drilldown
\* came from, cacheHit whether ensureDrilldown has returned at its first line,
\* sendRefused whether handleSendOffer has, sendStatus the status of the
\* relay's last response (0 before any, and for a fetch that rejected),
\* reviewedOffered whether a customer with an offer was marked as reviewed.
InitialPage(kind) ==
    [ kind |-> kind, mounted |-> FALSE, issued |-> 0,
      settled |-> FALSE, fulfilled |-> {}, held |-> <<>>, rejections |-> <<>>,
      loading |-> kind # "Prediction", error |-> "null",
      errorSource |-> NoSource, successAfterError |-> FALSE,
      loaded |-> FALSE, customers |-> <<>>, selectedId |-> "",
      drilldown |-> "null", drilldownFrom |-> 0,
      drilldownMap |-> {}, expandedId |-> "null", cacheHit |-> FALSE,
      modalOpen |-> FALSE, predictionLoading |-> FALSE,
      interventionResult |-> "null",
      customersLoading |-> kind = "Prediction", dataLoading |-> FALSE,
      customerData |-> "null", prediction |-> "null",
      selectedCustomer |-> "null", emailModalOpen |-> FALSE, officerNotes |-> "",
      isSending |-> FALSE, sendRefused |-> FALSE, sendStatus |-> 0,
      reviewedOffered |-> FALSE,
      interventionStatuses |-> [c \in CustomerIds |-> "undefined"] ]

\* No page is mounted yet.
NoPage == InitialPage("none")

\* What the page renders from: its data, error and loading flags.
ViewState(p) ==
    << p.loading, p.error, p.loaded, p.customers, p.selectedId, p.drilldown,
       p.drilldownMap, p.expandedId, p.modalOpen, p.predictionLoading,
       p.interventionResult, p.customersLoading, p.dataLoading, p.customerData,
       p.prediction, p.selectedCustomer, p.emailModalOpen, p.officerNotes,
       p.isSending, p.interventionStatuses >>

\* A backend call issued by the page, and the handler awaiting it.
Pending(p, op, arg, handler) ==
    [ id |-> p.issued + 1, op |-> op, arg |-> arg, handler |-> handler ]

\* setError(err.message) in a handler of request r.
SetError(p, r, error) ==
    [ p EXCEPT !.error = RejectionMessage(r.op, error),
               !.errorSource = [op |-> r.op, arg |-> r.arg, at |-> p.issued],
               !.successAfterError = FALSE ]

\* A success handler ran while an error was set.
Succeeded(p) ==
    IF p.error # "null" THEN [p EXCEPT !.successAfterError = TRUE] ELSE p

\* ---- the mount effects ----
\* The `.then` and `.finally` callbacks of a mount effect, past the isMounted
\* checks: the responses are stored (RiskExplorerPage also selects the first
\* customer) and loading is reset.
OnMountResolved(p) ==
    [ Succeeded(p) EXCEPT
        !.loaded = TRUE,
        !.customers = IF "getCustomerRiskList" \in MountOps(p.kind) THEN p.held ELSE <<>>,
        !.selectedId = IF p.kind = "RiskExplorer" /\ Len(p.held) > 0
                       THEN p.held[1] ELSE p.selectedId,
        !.loading = FALSE ]

\* Variant: loading is reset on success only.
OnMountRejectedKeepsLoading(p, r, error) == SetError(p, r, error)

\* Variant: the responses that arrived before the failure are stored.
OnMountRejectedStoresArrived(p, r, error) ==
    [ SetError(p, r, error) EXCEPT !.loading = FALSE,
                                   !.loaded = p.fulfilled # {},
                                   !.customers = p.held ]

\* The `.catch` and `.finally` callbacks of a mount effect, past the isMounted
\* checks.
OnMountRejected(p, r, error) ==
    [ SetError(p, r, error) EXCEPT !.loading = FALSE ]

\* The mount effect runs: setLoading(true), setError(null), and every mount
\* fetch is issued before the promise is awaited.  PredictionPage calls
\* loadCustomers: setCustomersLoading(true) and one fetch.
Mount(kind) ==
    /\ page = NoPage
    /\ page' = [ InitialPage(kind) EXCEPT
                   !.mounted = TRUE,
                   !.issued = IF kind = "Prediction" THEN 1
                              ELSE Cardinality(MountOps(kind)) ]
    /\ reqs' = IF kind = "Prediction"
               THEN { Pending(page, "getCustomerList", "", "loadCustomers") }
               ELSE { [id |-> 0, op |-> op, arg |-> "", handler |-> "mount"] :
                         op \in MountOps(kind) }
    /\ UNCHANGED <<clientVars, relayVars, bucketVars, mockVars, derivedVars>>

\* The cleanup of the mount effect: isMounted = false.
Unmount ==
    /\ page.kind # "none"
    /\ page.mounted
    /\ page' = [page EXCEPT !.mounted = FALSE]
    /\ UNCHANGED <<reqs, clientVars, relayVars, bucketVars, mockVars, derivedVars>>

\* One mount fetch is fulfilled.  When it is the last one, and none was rejected
\* before, the promise resolves and the callbacks run; they return at once
\* when the page is unmounted.  When RiskExplorerPage selects a customer the
\* drilldown effect runs after the render and issues its fetch.
MountFetchFulfils(r, list) ==
    /\ r \in reqs
    /\ r.handler = "mount"
    /\ list # <<>> => r.op = "getCustomerRiskList"
    /\ LET p == [ page EXCEPT !.fulfilled = page.fulfilled \cup {r.op},
                              !.held = IF r.op = "getCustomerRiskList"
                                       THEN list ELSE page.held ]
           resolves == ~page.settled /\ p.fulfilled = MountOps(page.kind)
           q == IF resolves /\ page.mounted
                THEN OnMountResolved([p EXCEPT !.settled = TRUE])
                ELSE [p EXCEPT !.settled = page.settled \/ resolves]
       IN IF q.selectedId # page.selectedId
          THEN /\ page' = [q EXCEPT !.issued = q.issued + 1]
               /\ reqs' = (reqs \ {r}) \cup
                            { Pending(q, "getCustomerDrilldown", q.selectedId, "drilldown") }
          ELSE /\ page' = q
               /\ reqs' = reqs \ {r}
    /\ UNCHANGED <<clientVars, relayVars, bucketVars, mockVars, derivedVars>>

\* One mount fetch is rejected: the promise rejects with the first rejection.
MountFetchRejects(r, error) ==
    /\ r \in reqs
    /\ r.handler = "mount"
    /\ LET p == [ page EXCEPT !.rejections =
                                 Append(page.rejections, RejectionMessage(r.op, error)) ]
       IN page' = IF page.settled THEN p
                  ELSE IF page.mounted
                  THEN OnMountRejected([p EXCEPT !.settled = TRUE], r, error)
                  ELSE [p EXCEPT !.settled = TRUE]
    /\ reqs' = reqs \ {r}
    /\ UNCHANGED <<clientVars, relayVars, bucketVars, mockVars, derivedVars>>

\* ---- customer selection and drilldown (RiskExplorerPage, ExplainabilityPage) ----
\* Variant: a stored drilldown clears the error.
OnDrilldownClearsError(p, r) ==
    [ p EXCEPT !.drilldown = r.arg, !.drilldownFrom = r.id,
               !.error = "null", !.errorSource = NoSource ]

\* .then((response) => { setDrilldown(response) })
OnDrilldown(p, r) ==
    [ Succeeded(p) EXCEPT !.drilldown = r.arg, !.drilldownFrom = r.id ]

\* The Select's onValueChange: setSelectedId (ExplainabilityPage also opens the
\* dialog; PredictionPage sets selectedCustomer).  The effect on the selection
\* then issues the fetch: getCustomerDrilldown, or loadCustomerData with
\* setDataLoading(true).
SelectCustomer(id) ==
    /\ page.kind \in {"RiskExplorer", "Explainability", "Prediction"}
    /\ page.mounted
    /\ id \in Range(page.customers)
    /\ id # page.selectedId
    /\ page.issued < MaxFetches
    /\ page' = [ page EXCEPT !.selectedId = id,
                             !.modalOpen = page.kind = "Explainability",
                             !.dataLoading = IF page.kind = "Prediction" THEN TRUE
                                             ELSE page.dataLoading,
                             !.issued = page.issued + 1 ]
    /\ reqs' = reqs \cup
                 { IF page.kind = "Prediction"
                   THEN Pending(page, "getCustomerData", id, "loadCustomerData")
                   ELSE Pending(page, "getCustomerDrilldown", id, "drilldown") }
    /\ UNCHANGED <<clientVars, relayVars, bucketVars, mockVars, derivedVars>>

\* openPrediction(customerId) of ExplainabilityPage; the drilldown effect runs
\* when the selection changed.
OpenPrediction(id) ==
    /\ page.kind = "Explainability"
    /\ page.mounted
    /\ id \in Range(page.customers)
    /\ id # page.selectedId => page.issued < MaxFetches
    /\ page' = [ page EXCEPT !.selectedId = id,
                             !.modalOpen = TRUE,
                             !.interventionResult = "null",
                             !.issued = IF id # page.selectedId
                                        THEN page.issued + 1 ELSE page.issued ]
    /\ reqs' = IF id # page.selectedId
               THEN reqs \cup { Pending(page, "getCustomerDrilldown", id, "drilldown") }
               ELSE reqs
    /\ UNCHANGED <<clientVars, relayVars, bucketVars, mockVars, derivedVars>>

\* The dialog is closed: onOpenChange={setModalOpen}.
CloseDialog ==
    /\ page.kind = "Explainability"
    /\ page.mounted
    /\ page.modalOpen
    /\ page' = [page EXCEPT !.modalOpen = FALSE]
    /\ UNCHANGED <<reqs, clientVars, relayVars, bucketVars, mockVars, derivedVars>>

\* The drilldown effect's promise settles; neither callback looks at isMounted.
DrilldownFulfils(r) ==
    /\ r \in reqs
    /\ r.handler = "drilldown"
    /\ page' = OnDrilldown(page, r)
    /\ reqs' = reqs \ {r}
    /\ UNCHANGED <<clientVars, relayVars, bucketVars, mockVars, derivedVars>>

DrilldownRejects(r, error) ==
    /\ r \in reqs
    /\ r.handler = "drilldown"
    /\ page' = SetError(page, r, error)
    /\ reqs' = reqs \ {r}
    /\ UNCHANGED <<clientVars, relayVars, bucketVars, mockVars, derivedVars>>

\* ---- AlertsPage rows ----
\* A row's onClick: setExpandedId(nextId), and ensureDrilldown(nextId) for an
\* expanded row, which returns at once when drilldownMap holds the customer.
\* The rows are rendered when neither loading nor error is set, and can be
\* clicked while the modal dialog is closed.
\* Variant: ensureDrilldown without its first line.
FetchNeededAlways(p, customerId) == TRUE

\* if (drilldownMap[customerId]) return;
FetchNeeded(p, customerId) == customerId \notin p.drilldownMap

ToggleRow(id) ==
    /\ page.kind = "Alerts"
    /\ page.mounted
    /\ ~page.loading
    /\ page.error = "null"
    /\ ~page.emailModalOpen
    /\ id \in Range(page.customers)
    /\ LET nextId == IF page.expandedId = id THEN "null" ELSE id
           fetches == nextId # "null" /\ FetchNeeded(page, nextId)
       IN /\ fetches => page.issued < MaxFetches
          /\ page' = [ page EXCEPT !.expandedId = nextId,
                                   !.cacheHit = page.cacheHit \/ (nextId # "null" /\ ~fetches),
                                   !.issued = IF fetches THEN page.issued + 1
                                              ELSE page.issued ]
          /\ reqs' = IF fetches
                     THEN reqs \cup { Pending(page, "getCustomerDrilldown", nextId,
                                              "ensureDrilldown") }
                     ELSE reqs
    /\ UNCHANGED <<clientVars, relayVars, bucketVars, mockVars, derivedVars>>

\* ensureDrilldown after its await: setDrilldownMap or setError.
EnsureDrilldownFulfils(r) ==
    /\ r \in reqs
    /\ r.handler = "ensureDrilldown"
    /\ page' = [ Succeeded(page) EXCEPT !.drilldownMap = page.drilldownMap \cup {r.arg} ]
    /\ reqs' = reqs \ {r}
    /\ UNCHANGED <<clientVars, relayVars, bucketVars, mockVars, derivedVars>>

EnsureDrilldownRejects(r, error) ==
    /\ r \in reqs
    /\ r.handler = "ensureDrilldown"
    /\ page' = SetError(page, r, error)
    /\ reqs' = reqs \ {r}
    /\ UNCHANGED <<clientVars, relayVars, bucketVars, mockVars, derivedVars>>

\* ---- AlertsPage: the intervention panel and the e-mail dialog ----
\* The panel of the expanded row is on screen and can be used.
PanelShown(id) ==
    /\ page.kind = "Alerts"
    /\ page.mounted
    /\ ~page.loading
    /\ page.error = "null"
    /\ ~page.emailModalOpen
    /\ page.expandedId = id

\* The notes the officer can type.
Notes == {"", "Call on Monday"}

\* The Textarea's onChange: setOfficerNotes.
SetOfficerNotes(text) ==
    /\ \E id \in CustomerIds : PanelShown(id)
    /\ text # page.officerNotes
    /\ page' = [page EXCEPT !.officerNotes = text]
    /\ UNCHANGED <<reqs, clientVars, relayVars, bucketVars, mockVars, derivedVars>>

\* "Send Offer to Customer": setSelectedCustomer(c), setEmailModalOpen(true).
OpenEmailDialog(id) ==
    /\ PanelShown(id)
    /\ page' = [page EXCEPT !.selectedCustomer = id, !.emailModalOpen = TRUE]
    /\ UNCHANGED <<reqs, clientVars, relayVars, bucketVars, mockVars, derivedVars>>

\* The dialog's onOpenChange (Escape, click outside) or its Cancel button.
CloseEmailDialog ==
    /\ page.kind = "Alerts"
    /\ page.mounted
    /\ page.emailModalOpen
    /\ page' = [page EXCEPT !.emailModalOpen = FALSE]
    /\ UNCHANGED <<reqs, clientVars, relayVars, bucketVars, mockVars, derivedVars>>

\* Variant: a customer with an offer keeps it.
OnMarkReviewedKeepsOffer(p, id) ==
    IF p.interventionStatuses[id] = "offered" THEN p
    ELSE [p EXCEPT !.interventionStatuses[id] = "none"]

\* setInterventionStatuses(prev => ({ ...prev, [customer.customer_id]: "none" }))
OnMarkReviewed(p, id) == [p EXCEPT !.interventionStatuses[id] = "none"]

\* "Mark as Reviewed": handleMarkReviewed(customer)
HandleMarkReviewed(id) ==
    /\ PanelShown(id)
    /\ page' = [ OnMarkReviewed(page, id) EXCEPT
                   !.reviewedOffered = @ \/ page.interventionStatuses[id] = "offered" ]
    /\ UNCHANGED <<reqs, clientVars, relayVars, bucketVars, mockVars, derivedVars>>

\* Variant: handleSendOffer does not look at isSending.
SendAllowedWhileSending(p) == p.selectedCustomer # "null"

\* if (!selectedCustomer || isSending) return;   negated
SendAllowed(p) == p.selectedCustomer # "null" /\ ~p.isSending

\* What the relay answers with.
RelayStatuses == {200, 400, 500}

\* handleSendOffer up to its await: it returns at once without a customer or
\* while a send is in flight ("Confirm & Send" is disabled then), else
\* setIsSending(true) and the POST to /api/send-intervention.
HandleSendOffer ==
    /\ page.kind = "Alerts"
    /\ page.mounted
    /\ page.emailModalOpen
    /\ page.issued < MaxFetches
    /\ IF SendAllowed(page)
       THEN /\ page' = [ page EXCEPT !.isSending = TRUE, !.issued = page.issued + 1 ]
            /\ reqs' = reqs \cup { Pending(page, "send-intervention", page.selectedCustomer,
                                           "handleSendOffer") }
       ELSE /\ page' = [ page EXCEPT !.sendRefused = TRUE ]
            /\ reqs' = reqs
    /\ UNCHANGED <<clientVars, relayVars, bucketVars, mockVars, derivedVars>>

\* Variant: the status is set whatever the response.
OnSendResponseIgnoresStatus(p, r, status) ==
    [ p EXCEPT !.interventionStatuses[r.arg] = "offered",
               !.emailModalOpen = FALSE,
               !.officerNotes = "",
               !.isSending = FALSE ]

\* handleSendOffer after its await, for the customer the send was issued for:
\* a response that is not ok throws (the catch shows a toast); a 2xx response
\* sets the status, closes the dialog and clears the notes.  finally:
\* setIsSending(false).
OnSendResponse(p, r, status) ==
    IF ResponseOk(status)
    THEN [ p EXCEPT !.interventionStatuses[r.arg] = "offered",
                    !.emailModalOpen = FALSE,
                    !.officerNotes = "",
                    !.isSending = FALSE ]
    ELSE [ p EXCEPT !.isSending = FALSE ]

SendOfferResponds(r, status) ==
    /\ r \in reqs
    /\ r.handler = "handleSendOffer"
    /\ page' = [OnSendResponse(page, r, status) EXCEPT !.sendStatus = status]
    /\ reqs' = reqs \ {r}
    /\ UNCHANGED <<clientVars, relayVars, bucketVars, mockVars, derivedVars>>

\* The fetch rejects (network error): catch (toast), finally.
SendOfferFails(r) ==
    /\ r \in reqs
    /\ r.handler = "handleSendOffer"
    /\ page' = [page EXCEPT !.isSending = FALSE, !.sendStatus = 0]
    /\ reqs' = reqs \ {r}
    /\ UNCHANGED <<clientVars, relayVars, bucketVars, mockVars, derivedVars>>

\* ---- ExplainabilityPage: handlePredictAndIntervene ----
\* The dialog's button, disabled while predictionLoading or without selection.
HandlePredictAndIntervene ==
    /\ page.kind = "Explainability"
    /\ page.mounted
    /\ page.modalOpen
    /\ ~page.predictionLoading
    /\ page.selectedId # ""
    /\ page.issued < MaxFetches
    /\ page' = [ page EXCEPT !.predictionLoading = TRUE, !.issued = page.issued + 1 ]
    /\ reqs' = reqs \cup { Pending(page, "predictAndSendIntervention", page.selectedId,
                                   "handlePredictAndIntervene") }
    /\ UNCHANGED <<clientVars, relayVars, bucketVars, mockVars, derivedVars>>

PredictAndInterveneFulfils(r) ==
    /\ r \in reqs
    /\ r.handler = "handlePredictAndIntervene"
    /\ page' = [ Succeeded(page) EXCEPT !.interventionResult = r.arg,
                                        !.predictionLoading = FALSE ]
    /\ reqs' = reqs \ {r}
    /\ UNCHANGED <<clientVars, relayVars, bucketVars, mockVars, derivedVars>>

PredictAndInterveneRejects(r, error) ==
    /\ r \in reqs
    /\ r.handler = "handlePredictAndIntervene"
    /\ page' = [ SetError(page, r, error) EXCEPT !.predictionLoading = FALSE ]
    /\ reqs' = reqs \ {r}
    /\ UNCHANGED <<clientVars, relayVars, bucketVars, mockVars, derivedVars>>

\* ---- PredictionPage ----
\* The reload button (disabled while customersLoading): loadCustomers.
LoadCustomers ==
    /\ page.kind = "Prediction"
    /\ page.mounted
    /\ ~page.customersLoading
    /\ page.issued < MaxFetches
    /\ page' = [ page EXCEPT !.customersLoading = TRUE, !.issued = page.issued + 1 ]
    /\ reqs' = reqs \cup { Pending(page, "getCustomerList", "", "loadCustomers") }
    /\ UNCHANGED <<clientVars, relayVars, bucketVars, mockVars, derivedVars>>

\* loadCustomers after its await: setCustomers, setSelectedCustomer(first),
\* setCustomersLoading(false).  On a mounted page a changed selection runs the
\* effect, which calls loadCustomerData.
LoadCustomersFulfils(r, list) ==
    /\ r \in reqs
    /\ r.handler = "loadCustomers"
    /\ LET q == [ Succeeded(page) EXCEPT
                    !.customers = list,
                    !.loaded = TRUE,
                    !.selectedId = IF Len(list) > 0 THEN list[1] ELSE page.selectedId,
                    !.customersLoading = FALSE ]
           effect == page.mounted /\ q.selectedId # page.selectedId
       IN /\ effect => page.issued < MaxFetches
          /\ page' = IF effect
                     THEN [q EXCEPT !.dataLoading = TRUE, !.issued = q.issued + 1]
                     ELSE q
          /\ reqs' = IF effect
                     THEN (reqs \ {r}) \cup
                            { Pending(q, "getCustomerData", q.selectedId, "loadCustomerData") }
                     ELSE reqs \ {r}
    /\ UNCHANGED <<clientVars, relayVars, bucketVars, mockVars, derivedVars>>

LoadCustomersRejects(r, error) ==
    /\ r \in reqs
    /\ r.handler = "loadCustomers"
    /\ page' = [ SetError(page, r, error) EXCEPT !.customersLoading = FALSE ]
    /\ reqs' = reqs \ {r}
    /\ UNCHANGED <<clientVars, relayVars, bucketVars, mockVars, derivedVars>>

\* loadCustomerData after its await: setCustomerData, setPrediction(null),
\* setDataLoading(false).
LoadCustomerDataFulfils(r) ==
    /\ r \in reqs
    /\ r.handler = "loadCustomerData"
    /\ page' = [ Succeeded(page) EXCEPT !.customerData = r.arg,
                                        !.prediction = "null",
                                        !.dataLoading = FALSE ]
    /\ reqs' = reqs \ {r}
    /\ UNCHANGED <<clientVars, relayVars, bucketVars, mockVars, derivedVars>>

LoadCustomerDataRejects(r, error) ==
    /\ r \in reqs
    /\ r.handler = "loadCustomerData"
    /\ page' = [ SetError(page, r, error) EXCEPT !.dataLoading = FALSE ]
    /\ reqs' = reqs \ {r}
    /\ UNCHANGED <<clientVars, relayVars, bucketVars, mockVars, derivedVars>>

\* The Predict button (disabled while loading or customersLoading, or without
\* a selected customer): setLoading(true), setError(null), predictRisk.
HandlePredict ==
    /\ page.kind = "Prediction"
    /\ page.mounted
    /\ ~page.loading
    /\ ~page.customersLoading
    /\ page.selectedId # ""
    /\ page.issued < MaxFetches
    /\ page' = [ page EXCEPT !.loading = TRUE,
                             !.error = "null",
                             !.errorSource = NoSource,
                             !.successAfterError = FALSE,
                             !.issued = page.issued + 1 ]
    /\ reqs' = reqs \cup { Pending(page, "predictRisk", page.selectedId, "handlePredict") }
    /\ UNCHANGED <<clientVars, relayVars, bucketVars, mockVars, derivedVars>>

HandlePredictFulfils(r) ==
    /\ r \in reqs
    /\ r.handler = "handlePredict"
    /\ page' = [ Succeeded(page) EXCEPT !.prediction = r.arg, !.loading = FALSE ]
    /\ reqs' = reqs \ {r}
    /\ UNCHANGED <<clientVars, relayVars, bucketVars, mockVars, derivedVars>>

HandlePredictRejects(r, error) ==
    /\ r \in reqs
    /\ r.handler = "handlePredict"
    /\ page' = [ SetError(page, r, error) EXCEPT !.loading = FALSE ]
    /\ reqs' = reqs \ {r}
    /\ UNCHANGED <<clientVars, relayVars, bucketVars, mockVars, derivedVars>>

NextPage ==
    \/ \E kind \in Pages : Mount(kind)
    \/ Unmount
    \/ \E r \in reqs, list \in CustomerLists : MountFetchFulfils(r, list)
    \/ \E r \in reqs, error \in RejectionCauses : MountFetchRejects(r, error)
    \/ \E id \in CustomerIds : SelectCustomer(id)
    \/ \E id \in CustomerIds : OpenPrediction(id)
    \/ CloseDialog
    \/ \E r \in reqs : DrilldownFulfils(r)
    \/ \E r \in reqs, error \in RejectionCauses : DrilldownRejects(r, error)
    \/ \E id \in CustomerIds : ToggleRow(id)
    \/ \E r \in reqs : EnsureDrilldownFulfils(r)
    \/ \E r \in reqs, error \in RejectionCauses : EnsureDrilldownRejects(r, error)
    \/ \E text \in Notes : SetOfficerNotes(text)
    \/ \E id \in CustomerIds : OpenEmailDialog(id)
    \/ CloseEmailDialog
    \/ \E id \in CustomerIds : HandleMarkReviewed(id)
    \/ HandleSendOffer
    \/ \E r \in reqs, status \in RelayStatuses : SendOfferResponds(r, status)
    \/ \E r \in reqs : SendOfferFails(r)
    \/ HandlePredictAndIntervene
    \/ \E r \in reqs : PredictAndInterveneFulfils(r)
    \/ \E r \in reqs, error \in RejectionCauses : PredictAndInterveneRejects(r, error)
    \/ LoadCustomers
    \/ \E r \in reqs, list \in CustomerLists : LoadCustomersFulfils(r, list)
    \/ \E r \in reqs, error \in RejectionCauses : LoadCustomersRejects(r, error)
    \/ \E r \in reqs : LoadCustomerDataFulfils(r)
    \/ \E r \in reqs, error \in RejectionCauses : LoadCustomerDataRejects(r, error)
    \/ HandlePredict
    \/ \E r \in reqs : HandlePredictFulfils(r)
    \/ \E r \in reqs, error \in RejectionCauses : HandlePredictRejects(r, error)


(***************************************************************************)
(*                    DERIVED VIEWS                                        *)
(***************************************************************************)
\* Array.prototype.sort((a, b) => key(b) - key(a)), with key[i] the key of
\* arr[i]: the stable sort by key, largest first.  The element at index i moves
\* behind every element with a larger key and every element with the same key
\* at a smaller index.
ArraySortDescending(arr, key) ==
    LET Rank(i) == Cardinality({ j \in DOMAIN arr :
                                   \/ key[j] > key[i]
                                   \/ (key[j] = key[i] /\ j < i) }) + 1
    IN [ n \in DOMAIN arr |-> arr[CHOOSE i \in DOMAIN arr : Rank(i) = n] ]

\* ---- AlertsPage: alertCustomers ----
\* The fetched customers: up to MaxCustomers items with distinct ids;
\* risk_probability is given in hundredths.
AlertIds == [n \in 1 .. MaxCustomers |-> n]
CustomerItems(n) ==
    { [customer_id |-> AlertIds[n], risk_probability |-> pr, risk_category |-> cat] :
        pr \in {29, 30, 75}, cat \in {"HIGH", "LOW"} }
FetchedCustomers ==
    UNION { { c \in [1 .. len -> UNION { CustomerItems(n) : n \in 1 .. MaxCustomers }] :
                \A n \in 1 .. len : c[n].customer_id = n } : len \in 0 .. MaxCustomers }

RiskFilters == {"all", "HIGH", "LOW"}
StatusFilters == {"all", "none", "offered"}

\* Variant: the threshold is exclusive.
IsAlertAboveThreshold(c) == c.risk_probability > 30

\* c.risk_probability >= 0.3
IsAlert(c) == c.risk_probability >= 30

\* interventionStatuses[c.customer_id] || "none"
getStatus(interventionStatuses, c) ==
    IF Truthy(interventionStatuses[c.customer_id])
    THEN interventionStatuses[c.customer_id] ELSE "none"

\* The chain filter / sort / filter / filter.  The first filter returns a new
\* array, so the sort works on that copy: customers is returned as it was.
RenderAlerts(a) ==
    LET MatchesRisk(c) == a.riskFilter = "all" \/ c.risk_category = a.riskFilter
        MatchesStatus(c) == \/ a.statusFilter = "all"
                            \/ getStatus(a.interventionStatuses, c) = a.statusFilter
        filtered == SelectSeq(a.customers, IsAlert)
        sorted == ArraySortDescending(filtered,
                      [i \in DOMAIN filtered |-> filtered[i].risk_probability])
    IN [ a EXCEPT !.alertCustomers =
                     SelectSeq(SelectSeq(sorted, MatchesRisk), MatchesStatus) ]

\* The page before the customers are fetched.
NoAlerts ==
    [ fetched |-> <<>>, customers |-> <<>>, riskFilter |-> "all", statusFilter |-> "all",
      interventionStatuses |-> [n \in 1 .. MaxCustomers |-> "undefined"],
      alertCustomers |-> <<>> ]

\* onValueChange={setRiskFilter}, and the render that follows.
SetRiskFilter(f) ==
    /\ f # alerts.riskFilter
    /\ alerts' = RenderAlerts([alerts EXCEPT !.riskFilter = f])
    /\ UNCHANGED <<contrib, clientVars, relayVars, bucketVars, mockVars, pageVars>>

\* onValueChange={setStatusFilter}, and the render that follows.
SetStatusFilter(f) ==
    /\ f # alerts.statusFilter
    /\ alerts' = RenderAlerts([alerts EXCEPT !.statusFilter = f])
    /\ UNCHANGED <<contrib, clientVars, relayVars, bucketVars, mockVars, pageVars>>

\* A listed customer's status is set: to "offered" by a sent offer, to "none"
\* by handleMarkReviewed; the render follows.
SetInterventionStatus(n, status) ==
    /\ \E i \in DOMAIN alerts.alertCustomers : alerts.alertCustomers[i].customer_id = n
    /\ alerts' = RenderAlerts([alerts EXCEPT !.interventionStatuses[n] = status])
    /\ UNCHANGED <<contrib, clientVars, relayVars, bucketVars, mockVars, pageVars>>

NextAlerts ==
    \/ \E f \in RiskFilters : SetRiskFilter(f)
    \/ \E f \in StatusFilters : SetStatusFilter(f)
    \/ \E n \in 1 .. MaxCustomers, status \in {"none", "offered"} :
          SetInterventionStatus(n, status)

\* ---- contributing features ----
FeatureNames == {"Salary_Delay_Days", "Savings_Drop_%", "Tenure"}
FeatureValues == {-2, -1, 1}

\* Object.entries(drilldown.contributing_features) of the drilldowns the backend
\* can answer with: up to MaxFeatures entries with distinct features, in the
\* object's key order.
Drilldowns ==
    UNION { { d \in [1 .. len -> [feature : FeatureNames, value : FeatureValues]] :
                \A i, j \in 1 .. len : i # j => d[i].feature # d[j].feature } :
            len \in 0 .. MaxFeatures }

\* mapFeatureName: featureMap[feature] || feature
mapFeatureName(feature) ==
    CASE feature = "Salary_Delay_Days" -> "Frequent Salary Credit Delays"
      [] feature = "Past_EMI_Delays_6M" -> "Multiple EMI Delays (Last 6 Months)"
      [] feature = "Credit_Utilization_%" -> "High Credit Card Utilization"
      [] feature = "Savings_Drop_%" -> "Declining Savings Balance"
      [] feature = "Current_Salary_Day" -> "Irregular Salary Credit Pattern"
      [] OTHER -> feature

\* Variant: the sort compares the signed values.
MathAbsMissing(value) == value

\* Math.abs
MathAbs(value) == IF value < 0 THEN 0 - value ELSE value

\* useState<CustomerDrilldown | null>(null), and a loaded drilldown.
NullDrilldown == [loaded |-> FALSE, contributing_features |-> <<>>]
LoadedDrilldown(entries) == [loaded |-> TRUE, contributing_features |-> entries]

\* RiskExplorerPage's contributingSeries: [] without a drilldown.
contributingSeries(drilldown) ==
    IF ~drilldown.loaded THEN <<>>
    ELSE ArraySortDescending(
           drilldown.contributing_features,
           [ i \in DOMAIN drilldown.contributing_features |->
               MathAbs(drilldown.contributing_features[i].value) ])

\* ExplainabilityPage's Key Risk Drivers, rendered when a drilldown is loaded.
keyRiskDrivers(drilldown) ==
    IF ~drilldown.loaded THEN <<>>
    ELSE ArraySortDescending(
           [ i \in DOMAIN drilldown.contributing_features |->
               [ feature |-> mapFeatureName(drilldown.contributing_features[i].feature),
                 value |-> drilldown.contributing_features[i].value ] ],
           [ i \in DOMAIN drilldown.contributing_features |->
               MathAbs(drilldown.contributing_features[i].value) ])

NoContrib == [ drilldown |-> NullDrilldown, contributingSeries |-> <<>>, keyRiskDrivers |-> <<>> ]

\* setDrilldown(response), and the render that follows.
SetDrilldown(d) ==
    /\ contrib' = [ drilldown |-> LoadedDrilldown(d),
                    contributingSeries |-> contributingSeries(LoadedDrilldown(d)),
                    keyRiskDrivers |-> keyRiskDrivers(LoadedDrilldown(d)) ]
    /\ UNCHANGED <<alerts, clientVars, relayVars, bucketVars, mockVars, pageVars>>

NextContrib == \E d \in Drilldowns : SetDrilldown(d)

(***************************************************************************)
(*                    PROPERTIES: BACKEND CLIENT                           *)
(***************************************************************************)
Started(c) == calls[c].pc # "idle"
Settled(c) == calls[c].pc = "done"
TimedOut(c) == calls[c].winner = "timer"
ErrorResponseWithDetail(c) ==
    /\ calls[c].winner = "fetch"
    /\ calls[c].status # 0
    /\ ~ResponseOk(calls[c].status)
    /\ calls[c].body.kind = "object"
    /\ Truthy(calls[c].body.detail)

\* C1: for every exported operation, a call whose 8000 ms timer fires while the
\* backend has not responded rejects with the normalized timeout message, never
\* with another message.
C1_TimeoutMessageNormalized ==
    \A c \in CallIds :
        TimedOut(c) =>
            /\ calls[c].delay = REQUEST_TIMEOUT_MS
            /\ Settled(c)
            /\ calls[c].outcome = "rejected"
            /\ calls[c].message = TIMEOUT_MESSAGE

\* C2 (as claimed): for every exported operation, a non-2xx response whose JSON
\* body has a non-empty detail rejects with exactly that detail as message.
C2_DetailPreservedByEveryOperation ==
    \A c \in CallIds :
        (ErrorResponseWithDetail(c) /\ Settled(c)) =>
            /\ calls[c].outcome = "rejected"
            /\ calls[c].message = calls[c].body.detail

\* C2 (amended): the operations that read the error body (getCustomerData,
\* predictRisk, getCustomerDrilldown, predictAndSendIntervention) reject a
\* non-2xx response carrying a non-empty detail with exactly that detail; the
\* other operations reject it with their fixed fallback message.
C2_DetailPreservedByDetailOps ==
    \A c \in CallIds :
        (ErrorResponseWithDetail(c) /\ Settled(c)) =>
            /\ calls[c].outcome = "rejected"
            /\ calls[c].op \in DetailOps => calls[c].message = calls[c].body.detail
            /\ calls[c].op \notin DetailOps => calls[c].message = Fallback(calls[c].op)

C2_Witness ==
    \E c \in CallIds :
        /\ calls[c].op = "getCustomerDrilldown"
        /\ calls[c].status = 404
        /\ ErrorResponseWithDetail(c)
        /\ Settled(c)
        /\ calls[c].message = "not found"

\* C3: once a call of fetchWithTimeout has settled (response, network error or
\* timeout) its timer is no longer pending, so it cannot fire afterwards.
C3_NoDanglingTimer ==
    \A c \in CallIds :
        calls[c].pc \in {"json", "done"} => calls[c].timer \in {"cleared", "fired"}

C3_Witness ==
    /\ \E c \in CallIds :
          calls[c].pc = "json" /\ calls[c].winner = "fetch" /\ calls[c].timer = "cleared"
    /\ \E c \in CallIds :
          calls[c].pc = "done" /\ calls[c].winner = "timer" /\ calls[c].timer = "fired"

\* C4: the request is aborted exactly when the timer wins the race; when the
\* fetch settles first, its response or error decides the outcome and the
\* request is not aborted, then or later.
C4_AbortedIffTimerWins ==
    \A c \in CallIds :
        /\ calls[c].aborted <=> TimedOut(c)
        /\ TimedOut(c) => calls[c].status = 0 /\ calls[c].outcome = "rejected"
        /\ calls[c].winner = "fetch" =>
              /\ ~calls[c].aborted
              /\ calls[c].timer = "cleared"
              /\ calls[c].message \notin
                    {TIMEOUT_MESSAGE, RequestTimeoutError.message, AbortError.message}
        /\ calls[c].pc = "fetching" <=> (Started(c) /\ calls[c].winner = "none")

C4_Witness ==
    /\ \E c \in CallIds : TimedOut(c) /\ calls[c].aborted
    /\ \E c \in CallIds :
          calls[c].winner = "fetch" /\ Settled(c) /\ ~calls[c].aborted

\* C5: every call issues exactly one network request, whatever its outcome,
\* and a resolved call returns the body of its own response.
C5_OneRequestPerCall ==
    \A c \in CallIds :
        /\ Started(c) => calls[c].fetches = 1
        /\ ~Started(c) => calls[c].fetches = 0
        /\ calls[c].outcome = "resolved" => calls[c].from = c

C5_Witness ==
    /\ \E c \in CallIds : calls[c].outcome = "resolved" /\ calls[c].fetches = 1
    /\ \E c \in CallIds :
          calls[c].outcome = "rejected" /\ calls[c].winner = "fetch" /\ calls[c].fetches = 1

\* C20: the seven operations that do not read an error body reject every
\* failure other than a timeout (network error, non-2xx status, malformed JSON
\* body) with exactly their own fixed fallback message, never with the raw
\* error.
C20_FallbackForNonTimeoutFailures ==
    \A c \in CallIds :
        ( /\ calls[c].op \in Ops \ DetailOps
          /\ calls[c].outcome = "rejected"
          /\ calls[c].winner = "fetch" ) =>
            /\ calls[c].message = Fallback(calls[c].op)
            /\ calls[c].message \notin
                  { NetworkError.message, JsonSyntaxError.message,
                    HttpMessage(404), HttpMessage(500), TIMEOUT_MESSAGE }
            /\ calls[c].op = "checkBackendHealth" =>
                  calls[c].message =
                    "Unable to connect to backend. Ensure FastAPI server is running on http://localhost:8000"

C20_Witness ==
    /\ \E c \in CallIds :
          /\ calls[c].op = "checkBackendHealth"
          /\ calls[c].outcome = "rejected"
          /\ calls[c].status = 0
          /\ calls[c].winner = "fetch"
    /\ \E c \in CallIds :
          /\ calls[c].op = "getCustomerRiskList"
          /\ calls[c].outcome = "rejected"
          /\ calls[c].status = 200
          /\ calls[c].body.kind = "malformed"

(***************************************************************************)
(*                    PROPERTIES: E-MAIL RELAY                             *)
(***************************************************************************)
Answered == answered.id # 0

FieldMissing(v) == v \in {"undefined", ""}

AnyRequiredFieldMissing(body) ==
    \E f \in {"customerId", "customerName", "topSignal", "selectedIntervention"} :
        FieldMissing(body[f])

ConfigIncomplete ==
    \/ env.SMTP_HOST = ""
    \/ env.SMTP_USER = ""
    \/ env.SMTP_PASS = ""
    \/ (env.SMTP_FROM = "" /\ env.SMTP_USER = "")

\* C6 (as claimed): a request lacking a required field is answered 400 with no
\* SMTP send attempt, in every configuration state of the relay.
C6_MissingFieldGives400Always ==
    (Answered /\ AnyRequiredFieldMissing(answered.body)) =>
        answered.status = 400 /\ answered.sends = 0

\* C6 (amended): a request lacking a required field never causes an SMTP send;
\* it is answered 400 when the SMTP configuration is complete and 500 (the
\* configuration error) when it is not.
C6_MissingFieldGives400WhenConfigured ==
    /\ \A r \in inflight : ~AnyRequiredFieldMissing(r.body)
    /\ (Answered /\ AnyRequiredFieldMissing(answered.body)) =>
          /\ answered.sends = 0
          /\ answered.status = IF ConfigIncomplete THEN 500 ELSE 400

C6_Witness ==
    /\ Answered
    /\ ~ConfigIncomplete
    /\ FieldMissing(answered.body.selectedIntervention)
    /\ ~FieldMissing(answered.body.customerId)
    /\ ~FieldMissing(answered.body.customerName)
    /\ ~FieldMissing(answered.body.topSignal)
    /\ answered.status = 400

C8_OneSendToFixedRecipient ==
    /\ \A r \in inflight :
          /\ r.sends = 1
          /\ r.mail.to = FIXED_TO_ADDRESS
          /\ r.mail.to # r.body.email
          /\ r.responses = 0
    /\ (Answered /\ ~ConfigIncomplete /\ ~AnyRequiredFieldMissing(answered.body)) =>
          /\ answered.sends = 1
          /\ answered.mail.to = FIXED_TO_ADDRESS
          /\ answered.mail.to # answered.body.email
    /\ (Answered /\ answered.sendResult = "sent") =>
          /\ answered.status = 200
          /\ answered.json = <<answered.providerSaid, FIXED_TO_ADDRESS>>
          /\ answered.providerSaid \in MessageIds

C8_Witness ==
    /\ Answered
    /\ answered.sendResult = "sent"
    /\ answered.status = 200
    /\ answered.sends = 1
    /\ env.FIXED_TO_ADDRESS = ""
    /\ answered.mail.to = DEFAULT_FIXED_TO

\* C9: a failed SMTP send is answered 500 with the provider's error message
\* after exactly one send attempt; the request is not kept for a later attempt.
C9_FailedSendGives500Once ==
    /\ \A r \in inflight : r.sendResult = "none"
    /\ (Answered /\ answered.sendResult = "failed") =>
          /\ answered.status = 500
          /\ answered.text = answered.providerSaid
          /\ \E e \in SmtpErrors : answered.providerSaid = e.message
          /\ answered.sends = 1
          /\ \A r \in inflight : r.id # answered.id

C9_Witness ==
    /\ Answered
    /\ answered.sendResult = "failed"
    /\ answered.status = 500
    /\ answered.text = "Connection timeout"

(***************************************************************************)
(*                    PROPERTIES: RISK BUCKETING                           *)
(***************************************************************************)
Classified == level # NoLevel

\* C10: the level shown for a probability p is LOW iff p < 0.40, MEDIUM iff
\* 0.40 <= p < 0.70 and HIGH iff p >= 0.70, in the explainability view
\* (getDelinquencyRiskLevel) as in the documented classification rule.
C10_BucketingThresholds ==
    Classified =>
        /\ level.shown = "Low Risk" <=> 100 * prob < 40 * Grid
        /\ level.shown = "Medium Risk" <=> (100 * prob >= 40 * Grid /\ 100 * prob < 70 * Grid)
        /\ level.shown = "High Risk" <=> 100 * prob >= 70 * Grid
        /\ level.documented = "LOW" <=> 100 * prob < 40 * Grid
        /\ level.documented = "MEDIUM" <=> (100 * prob >= 40 * Grid /\ 100 * prob < 70 * Grid)
        /\ level.documented = "HIGH" <=> 100 * prob >= 70 * Grid

(***************************************************************************)
(*                    PROPERTIES: SYNTHETIC DATA                           *)
(***************************************************************************)
\* C11: the exported customers collection holds exactly 120 records and every
\* record's riskScore is an integer in [5, 98].
C11_CustomersCountAndScoreRange ==
    /\ mock.pc = "loaded" <=> mock.length = 120
    /\ mock.length <= 120
    /\ mock.length > 0 => (mock.riskScore >= 5 /\ mock.riskScore <= 98)

C11_Witness ==
    mock.pc = "loaded" /\ mock.length = 120 /\ mock.riskScore = 98

\* C22: a generated customer is consistent: interventionStatus is not "none"
\* only if riskScore > 50; interventionHistory is non-empty exactly when
\* interventionStatus is not "none", and then is one record with that status;
\* daysPastDue > 0 only if riskScore > 60.
C22_CustomerRecordConsistent ==
    gen.pc = "returned" =>
        /\ gen.interventionStatus # "none" => gen.riskScore > 50
        /\ gen.interventionHistory # <<>> <=> gen.interventionStatus # "none"
        /\ gen.interventionStatus # "none" =>
              /\ Len(gen.interventionHistory) = 1
              /\ gen.interventionHistory[1].status = gen.interventionStatus
        /\ gen.daysPastDue > 0 => gen.riskScore > 60

C22_Witness ==
    /\ gen.pc = "returned"
    /\ gen.riskScore = 61
    /\ gen.interventionStatus = "declined"
    /\ Len(gen.interventionHistory) = 1
    /\ gen.daysPastDue = 30

\* C13: generateTimeSeries returns exactly days + 1 points for days >= 0, and
\* every point is >= 0 whatever base (negative included), volatility and trend.
C13_SeriesLengthAndNonNegative ==
    /\ series.pc = "returned" => series.length = series.days + 1
    /\ series.length > 0 => series.last >= 0

C13_Witness ==
    /\ series.pc = "returned"
    /\ series.days = MaxDays
    /\ series.length = MaxDays + 1
    /\ series.trend < 0
    /\ series.last = 0

\* C12 (as claimed): with p = riskScore / 100 the category is the lowest bucket
\* iff p < 0.40, a middle bucket iff 0.40 <= p < 0.70 and the highest bucket iff
\* p >= 0.70.
C12_CategoryUsesBackendThresholds ==
    gen.pc \in {"interventionStatus", "daysPastDue", "returned"} =>
        /\ gen.riskCategory = "Low" <=> gen.riskScore < 40
        /\ gen.riskCategory \in {"Early Stress", "Moderate"} <=>
              (gen.riskScore >= 40 /\ gen.riskScore < 70)
        /\ gen.riskCategory = "High" <=> gen.riskScore >= 70

\* C12 (amended): riskCategory is a monotonic bucketing of riskScore alone, with
\* the generator's own four buckets: Low iff riskScore < 30, Early Stress iff
\* 30 <= riskScore < 50, Moderate iff 50 <= riskScore < 75, High iff
\* riskScore >= 75.
C12_CategoryUsesGeneratorThresholds ==
    gen.pc \in {"interventionStatus", "daysPastDue", "returned"} =>
        /\ gen.riskCategory = "Low" <=> gen.riskScore < 30
        /\ gen.riskCategory = "Early Stress" <=> (gen.riskScore >= 30 /\ gen.riskScore < 50)
        /\ gen.riskCategory = "Moderate" <=> (gen.riskScore >= 50 /\ gen.riskScore < 75)
        /\ gen.riskCategory = "High" <=> gen.riskScore >= 75

C12_Witness ==
    gen.pc = "returned" /\ gen.riskScore = 72 /\ gen.riskCategory = "Moderate"

(***************************************************************************)
(*                    PROPERTIES: PAGES                                    *)
(***************************************************************************)
\* C14: in every page and for every fetch it issues, a result or failure that
\* arrives after the page has unmounted is dropped: no view-state update (data,
\* error or loading flag) happens after unmount.
C14_NoViewStateUpdateAfterUnmount ==
    [][ (page.kind # "none" /\ ~page.mounted) => ViewState(page') = ViewState(page) ]_vars

\* A step that clears the error.
ErrorCleared == page.error # "null" /\ page'.error = "null"

\* A step that settles one fetch and issues another.
FetchFollowsSettlement == (reqs \ reqs' # {}) /\ (reqs' \ reqs # {})

\* C15 (as claimed): in every page, once a failed fetch has set the error it
\* stays set (there is no step that clears it: not a later successful fetch, not
\* selecting a customer, expanding a row or requesting a prediction), and no
\* fetch is issued by the failure.
C15_ErrorStaysSet ==
    [][ /\ ~ErrorCleared
        /\ FetchFollowsSettlement => page'.error = page.error ]_vars

\* C15 (amended): the error is cleared by one step only, PredictionPage's
\* prediction request (handlePredict sets it to null before it fetches); no
\* other page and no other step - a successful fetch, a customer selection, an
\* expanded row, the reload of the customer list - clears it; and the only
\* fetches issued by a settlement follow a successful customer-list load that
\* changed the selection, never a failure.
C15_ErrorClearedOnlyByPredictionRequest ==
    [][ /\ ErrorCleared =>
              /\ page.kind = "Prediction"
              /\ ~page.loading /\ page'.loading
              /\ \E r \in reqs' \ reqs : r.op = "predictRisk"
        /\ FetchFollowsSettlement =>
              /\ page'.error = page.error
              /\ page'.errorSource = page.errorSource
              /\ page'.selectedId # page.selectedId
              /\ page'.selectedId \in Range(page'.customers) ]_vars

C15_Witness ==
    /\ page.kind = "Explainability"
    /\ page.error # "null"
    /\ page.successAfterError
    /\ page.interventionResult # "null"
    /\ reqs = {}

\* C16: in RiskExplorerPage and in ExplainabilityPage's dialog, after the
\* drilldown fetch for one customer has failed, selecting another customer whose
\* drilldown fetch succeeds shows that customer's drilldown without a stale
\* error (both pages render the error whenever it is set).
C16_NoStaleDrilldownError ==
    ( /\ page.kind \in {"RiskExplorer", "Explainability"}
      /\ page.mounted
      /\ page.selectedId # ""
      /\ page.drilldown = page.selectedId
      /\ page.errorSource.op = "getCustomerDrilldown"
      /\ page.errorSource.arg # page.selectedId
      /\ page.drilldownFrom > page.errorSource.at ) =>
          page.error = "null"

\* The mount promise is pending: no mount fetch was rejected and not every one
\* is fulfilled.
MountPending ==
    LET pending == { r.op : r \in { q \in reqs : q.handler = "mount" } } IN
      /\ page.fulfilled \cup pending = MountOps(page.kind)
      /\ page.fulfilled # MountOps(page.kind)

\* C17: in each page with a mount-time load the mount fetches are all issued at
\* once (while none has been rejected each one is pending or fulfilled), and on
\* a mounted page loading is true exactly while the mount promise is pending:
\* it is false once all are fulfilled or one is rejected, by failure or by
\* timeout.
C17_LoadingWhileMountPending ==
    page.kind \in Pages \ {"Prediction"} =>
        /\ ~page.settled =>
              page.fulfilled \cup { r.op : r \in reqs } = MountOps(page.kind)
        /\ page.mounted => (page.loading <=> MountPending)

C17_Witness ==
    /\ page.kind = "PortfolioDrift"
    /\ page.mounted
    /\ ~page.loading
    /\ page.error = TIMEOUT_MESSAGE
    /\ page.fulfilled # {}
    /\ reqs # {}

\* C25: every call of an operation of the backend client settles in the end,
\* whatever the backend does.
C25_EveryCallSettles ==
    \A c \in CallIds : (calls[c].pc # "idle") ~> (calls[c].pc = "done")

\* C28: the relay answers a request once: the answered request has exactly
\* one response, with status 200, 400 or 500, and status 200 only when the
\* one SMTP send made for it succeeded; a request whose send is pending has no
\* response yet, is not the one answered, and no two pending requests are the
\* same request.
C28_OneResponsePerRequest ==
    /\ Answered =>
          /\ answered.responses = 1
          /\ answered.status \in {200, 400, 500}
          /\ answered.status = 200 <=> answered.sendResult = "sent"
          /\ answered.status = 200 => answered.sends = 1
          /\ answered.id \in 1 .. received
    /\ \A r \in inflight :
          /\ r.responses = 0
          /\ r.status = 0
          /\ r.id \in 1 .. received
          /\ Answered => r.id # answered.id
          /\ \A q \in inflight : q.id = r.id => q = r

\* The second request was answered with 200 after its send succeeded while
\* the first is still waiting for the provider.
C28_Witness ==
    /\ Answered
    /\ answered.id = 2
    /\ answered.status = 200
    /\ answered.sendResult = "sent"
    /\ answered.responses = 1
    /\ \E r \in inflight : r.id = 1

\* C21: in AlertsPage a request to the backend is a drilldown request, issued
\* only by the step that expands the customer's row; once drilldownMap holds a customer no request for that
\* customer is issued any more, and no entry ever leaves drilldownMap.
C21_DrilldownFetchedOnDemandAndCached ==
    [][ (page.kind = "Alerts") =>
          /\ page.drilldownMap \subseteq page'.drilldownMap
          /\ \A r \in reqs' \ reqs :
                r.op # "send-intervention" =>
                    /\ r.op = "getCustomerDrilldown"
                    /\ page'.expandedId = r.arg
                    /\ page.expandedId # r.arg
                    /\ r.arg \notin page.drilldownMap ]_vars

C21_Witness ==
    /\ page.kind = "Alerts"
    /\ page.cacheHit
    /\ page.expandedId \in page.drilldownMap
    /\ page.drilldownMap = CustomerIds
    /\ reqs = {}

\* C23: in RiskExplorerPage and ExplainabilityPage, once every drilldown
\* request has settled successfully, the drilldown in view state is the one of
\* the selected customer, whatever the order of the responses.
C23_DrilldownOfLatestSelection ==
    ( /\ page.kind \in {"RiskExplorer", "Explainability"}
      /\ page.mounted
      /\ page.selectedId # ""
      /\ page.error = "null"
      /\ reqs = {} ) =>
          page.drilldown = page.selectedId

\* C24: in PredictionPage, whenever no request is in flight, a displayed
\* prediction and the displayed customerData belong to the selected customer.
C24_PredictionOfSelectedCustomer ==
    ( /\ page.kind = "Prediction"
      /\ page.mounted
      /\ reqs = {} ) =>
          /\ page.prediction \in {"null", page.selectedId}
          /\ page.customerData \in {"null", page.selectedId}

\* C29: in the pages whose mount effect loads several resources in parallel
\* (Dashboard, PortfolioDrift, Explainability) the results are stored together
\* or not at all: stored results mean that every fetch was fulfilled, and when
\* one fails on a mounted page nothing is stored and error is the message of
\* the first failure.
C29_MountResultsAllOrNothing ==
    ( /\ page.kind \in {"Dashboard", "PortfolioDrift", "Explainability"}
      /\ page.mounted ) =>
          /\ page.loaded => (page.fulfilled = MountOps(page.kind) /\ page.rejections = <<>>)
          /\ ~page.loaded => page.customers = <<>>
          /\ page.rejections # <<>> =>
                /\ ~page.loaded
                /\ page.customers = <<>>
                /\ page.error = page.rejections[1]

C29_Witness ==
    /\ page.kind = "PortfolioDrift"
    /\ page.mounted
    /\ Len(page.rejections) = 2
    /\ page.rejections[1] # page.rejections[2]
    /\ page.fulfilled # {}
    /\ page.error = page.rejections[1]
    /\ reqs = {}

\* The sends of the page that are in flight.
SendsInFlight == { r \in reqs : r.handler = "handleSendOffer" }

\* C26: on AlertsPage a customer's status becomes "offered" only in the step
\* where a send issued for that same customer is answered by the relay with a
\* 2xx status; and a step where a send fails (a status that is not 2xx, or a
\* rejected fetch) leaves interventionStatuses, the dialog's open state and
\* the officer notes as they were.
C26_OfferedOnlyOnSuccessfulSend ==
    [][ (page.kind = "Alerts") =>
          /\ \A c \in CustomerIds :
                ( /\ page'.interventionStatuses[c] = "offered"
                  /\ page.interventionStatuses[c] # "offered" ) =>
                      /\ \E r \in SendsInFlight \ reqs' : r.arg = c
                      /\ ResponseOk(page'.sendStatus)
          /\ ( /\ SendsInFlight \ reqs' # {}
               /\ ~ResponseOk(page'.sendStatus) ) =>
                      /\ page'.interventionStatuses = page.interventionStatuses
                      /\ page'.emailModalOpen = page.emailModalOpen
                      /\ page'.officerNotes = page.officerNotes ]_vars

\* A send has failed with the dialog open and notes typed, after an earlier
\* send for the same customer had succeeded.
C26_Witness ==
    /\ page.kind = "Alerts"
    /\ page.interventionStatuses["CUST_1"] = "offered"
    /\ page.interventionStatuses["CUST_2"] = "undefined"
    /\ page.selectedCustomer = "CUST_1"
    /\ page.sendStatus = 500
    /\ page.emailModalOpen
    /\ page.officerNotes # ""
    /\ ~page.isSending
    /\ reqs = {}

\* C27: on AlertsPage at most one send is in flight; isSending is true exactly
\* while one is, so that it is false again once the request has settled, and
\* a call of handleSendOffer made meanwhile issues no request.
C27_AtMostOneSendInFlight ==
    (page.kind = "Alerts") =>
        /\ Cardinality(SendsInFlight) <= 1
        /\ page.isSending <=> SendsInFlight # {}

\* handleSendOffer was called while a send was in flight.
C27_Witness ==
    /\ page.kind = "Alerts"
    /\ page.sendRefused
    /\ page.isSending
    /\ Cardinality(SendsInFlight) = 1

\* The alert list of the page under a status filter, every customer of the
\* page being an alert.
AlertsUnder(statusFilter) ==
    RenderAlerts([ fetched |-> <<>>,
                   customers |-> [ i \in DOMAIN page.customers |->
                                     [ customer_id |-> page.customers[i],
                                       risk_probability |-> 75,
                                       risk_category |-> "HIGH" ] ],
                   riskFilter |-> "all", statusFilter |-> statusFilter,
                   interventionStatuses |-> page.interventionStatuses,
                   alertCustomers |-> <<>> ]).alertCustomers

\* C30: on AlertsPage the status of every customer is "none" or "offered";
\* the alert list, computed anew when the customers or the statuses change,
\* is empty under the status filters "accepted" and "declined"; and a status
\* changes only to "offered" or, by "Mark as
\* Reviewed", to "none", from "offered" too.
C30_StatusNoneOrOffered ==
    [][ (page'.kind = "Alerts") =>
          /\ \A c \in CustomerIds :
                page'.interventionStatuses[c] \in {"undefined", "none", "offered"}
          /\ ( \/ page'.customers # page.customers
               \/ page'.interventionStatuses # page.interventionStatuses ) =>
                    /\ \A i \in DOMAIN page'.customers :
                          getStatus(page'.interventionStatuses,
                                    [customer_id |-> page'.customers[i]])
                              \in {"none", "offered"}
                    /\ AlertsUnder("accepted")' = <<>>
                    /\ AlertsUnder("declined")' = <<>>
          /\ page'.reviewedOffered # page.reviewedOffered =>
                \E c \in CustomerIds :
                    /\ page.interventionStatuses[c] = "offered"
                    /\ page'.interventionStatuses[c] = "none" ]_vars

\* A customer with an offer was marked as reviewed: the list under the
\* filter "none" shows both customers, the list under "offered" none.
C30_Witness ==
    /\ page.kind = "Alerts"
    /\ page.reviewedOffered
    /\ page.interventionStatuses["CUST_1"] = "none"
    /\ page.interventionStatuses["CUST_2"] = "undefined"
    /\ Len(page.customers) = 2
    /\ Len(AlertsUnder("none")) = 2
    /\ AlertsUnder("offered") = <<>>


(***************************************************************************)
(*                    PROPERTIES: DERIVED VIEWS                            *)
(***************************************************************************)
\* C18: alertCustomers holds exactly the fetched customers with
\* risk_probability >= 0.3 whose risk_category equals riskFilter (or riskFilter
\* is "all") and whose intervention status (by default "none") equals
\* statusFilter (or statusFilter is "all"), each once, ordered by
\* risk_probability non-increasing; the fetched customers list is unchanged.
C18_AlertListFilteredAndOrdered ==
    LET list == alerts.alertCustomers
        StatusOf(c) == IF alerts.interventionStatuses[c.customer_id] = "undefined"
                       THEN "none" ELSE alerts.interventionStatuses[c.customer_id]
        expected == { c \in Range(alerts.fetched) :
                        /\ 10 * c.risk_probability >= 300
                        /\ alerts.riskFilter \in {"all", c.risk_category}
                        /\ alerts.statusFilter \in {"all", StatusOf(c)} }
    IN /\ Range(list) = expected
       /\ Len(list) = Cardinality(expected)
       /\ \A i, j \in DOMAIN list : i < j => list[i].risk_probability >= list[j].risk_probability
       /\ alerts.customers = alerts.fetched

C18_Witness ==
    /\ Len(alerts.fetched) = 3
    /\ Len(alerts.alertCustomers) = 2
    /\ alerts.alertCustomers[1].customer_id = 3
    /\ alerts.alertCustomers[1].risk_probability > alerts.alertCustomers[2].risk_probability
    /\ alerts.alertCustomers[2].risk_probability = 30
    /\ alerts.statusFilter = "offered"
    /\ alerts.riskFilter = "HIGH"

\* C19: the contributing-features series of a loaded drilldown is a permutation
\* of the drilldown's entries, each value with its sign (ExplainabilityPage
\* shows the features under their display names), ordered by the absolute
\* value of the contribution, non-increasing; it is empty without a drilldown.
C19_SeriesSortedByAbsoluteValue ==
    LET entries == contrib.drilldown.contributing_features
        Magnitude(v) == IF v >= 0 THEN v ELSE -v
        Ordered(shown) ==
            \A i, j \in DOMAIN shown :
                i < j => Magnitude(shown[i].value) >= Magnitude(shown[j].value)
    IN IF ~contrib.drilldown.loaded
       THEN contrib.contributingSeries = <<>> /\ contrib.keyRiskDrivers = <<>>
       ELSE /\ Len(contrib.contributingSeries) = Len(entries)
            /\ Range(contrib.contributingSeries) = Range(entries)
            /\ Ordered(contrib.contributingSeries)
            /\ Len(contrib.keyRiskDrivers) = Len(entries)
            /\ Range(contrib.keyRiskDrivers) =
                 { [feature |-> mapFeatureName(e.feature), value |-> e.value] :
                      e \in Range(entries) }
            /\ Ordered(contrib.keyRiskDrivers)

C19_Witness ==
    /\ contrib.drilldown.loaded
    /\ Len(contrib.drilldown.contributing_features) = 3
    /\ contrib.drilldown.contributing_features[1].value = 1
    /\ contrib.drilldown.contributing_features[2].value = -1
    /\ contrib.drilldown.contributing_features[3].value = -2
    /\ contrib.contributingSeries[1] = contrib.drilldown.contributing_features[3]
    /\ contrib.contributingSeries[2] = contrib.drilldown.contributing_features[1]
    /\ contrib.keyRiskDrivers[1].value = -2

(***************************************************************************)
(*                    SPECIFICATIONS                                       *)
(***************************************************************************)
InitClient ==
    /\ calls = IdleCalls
    /\ env = NoEnv
    /\ inflight = {}
    /\ answered = NoRequest
    /\ received = 0
    /\ prob = 0
    /\ level = NoLevel
    /\ mock = NoMock
    /\ gen = NoGen
    /\ series = NoSeries
    /\ page = NoPage
    /\ reqs = {}
    /\ alerts = NoAlerts
    /\ contrib = NoContrib

InitRelay ==
    /\ calls = IdleCalls
    /\ env \in EnvValues
    /\ inflight = {}
    /\ answered = NoRequest
    /\ received = 0
    /\ prob = 0
    /\ level = NoLevel
    /\ mock = NoMock
    /\ gen = NoGen
    /\ series = NoSeries
    /\ page = NoPage
    /\ reqs = {}
    /\ alerts = NoAlerts
    /\ contrib = NoContrib

InitBucket ==
    /\ calls = IdleCalls
    /\ env = NoEnv
    /\ inflight = {}
    /\ answered = NoRequest
    /\ received = 0
    /\ prob \in 0 .. Grid
    /\ level = NoLevel
    /\ mock = NoMock
    /\ gen = NoGen
    /\ series = NoSeries
    /\ page = NoPage
    /\ reqs = {}
    /\ alerts = NoAlerts
    /\ contrib = NoContrib

InitMock ==
    /\ calls = IdleCalls
    /\ env = NoEnv
    /\ inflight = {}
    /\ answered = NoRequest
    /\ received = 0
    /\ prob = 0
    /\ level = NoLevel
    /\ mock = NoMock
    /\ gen = NoGen
    /\ series = NoSeries
    /\ page = NoPage
    /\ reqs = {}
    /\ alerts = NoAlerts
    /\ contrib = NoContrib

\* generateCustomer is entered for the first or for the last index.
InitCustomer ==
    /\ calls = IdleCalls
    /\ env = NoEnv
    /\ inflight = {}
    /\ answered = NoRequest
    /\ received = 0
    /\ prob = 0
    /\ level = NoLevel
    /\ mock = NoMock
    /\ gen \in { [NoGen EXCEPT !.pc = "riskScore", !.index = i] :
                    i \in {0, CUSTOMER_COUNT - 1} }
    /\ series = NoSeries
    /\ page = NoPage
    /\ reqs = {}
    /\ alerts = NoAlerts
    /\ contrib = NoContrib

\* generateTimeSeries is entered: const data = []; let value = base.
InitSeries ==
    /\ calls = IdleCalls
    /\ env = NoEnv
    /\ inflight = {}
    /\ answered = NoRequest
    /\ received = 0
    /\ prob = 0
    /\ level = NoLevel
    /\ mock = NoMock
    /\ gen = NoGen
    /\ series \in { [ pc |-> "loop", days |-> d, volatility |-> v, trend |-> t,
                      i |-> d, value |-> b * Ticks, length |-> 0, last |-> 0 ] :
                        d \in 0 .. MaxDays, b \in Bases, v \in Volatilities, t \in Trends }
    /\ page = NoPage
    /\ reqs = {}
    /\ alerts = NoAlerts
    /\ contrib = NoContrib

InitPage ==
    /\ calls = IdleCalls
    /\ env = NoEnv
    /\ inflight = {}
    /\ answered = NoRequest
    /\ received = 0
    /\ prob = 0
    /\ level = NoLevel
    /\ mock = NoMock
    /\ gen = NoGen
    /\ series = NoSeries
    /\ page = NoPage
    /\ reqs = {}
    /\ alerts = NoAlerts
    /\ contrib = NoContrib

\* The customers have been fetched and the list is rendered.
InitAlerts ==
    /\ calls = IdleCalls
    /\ env = NoEnv
    /\ inflight = {}
    /\ answered = NoRequest
    /\ received = 0
    /\ prob = 0
    /\ level = NoLevel
    /\ mock = NoMock
    /\ gen = NoGen
    /\ series = NoSeries
    /\ page = NoPage
    /\ reqs = {}
    /\ alerts \in { RenderAlerts([NoAlerts EXCEPT !.fetched = response,
                                                  !.customers = response]) :
                       response \in FetchedCustomers }
    /\ contrib = NoContrib

InitContrib ==
    /\ calls = IdleCalls
    /\ env = NoEnv
    /\ inflight = {}
    /\ answered = NoRequest
    /\ received = 0
    /\ prob = 0
    /\ level = NoLevel
    /\ mock = NoMock
    /\ gen = NoGen
    /\ series = NoSeries
    /\ page = NoPage
    /\ reqs = {}
    /\ alerts = NoAlerts
    /\ contrib = NoContrib

SpecClient == InitClient /\ [][NextClient]_vars

\* The browser runs the callback of a timer that stays armed.  Nothing
\* obliges the backend to answer, or to complete a body it has begun.
FairTimers == \A c \in CallIds : WF_vars(\E r \in TimeoutRejections : TimerFires(c, r))

SpecClientFair == InitClient /\ [][NextClient]_vars /\ FairTimers

SpecRelay == InitRelay /\ [][NextRelay]_vars

SpecBucket == InitBucket /\ [][NextBucket]_vars

SpecMock == InitMock /\ [][NextMock]_vars

SpecSeries == InitSeries /\ [][NextSeries]_vars

SpecPage == InitPage /\ [][NextPage]_vars

SpecAlerts == InitAlerts /\ [][NextAlerts]_vars

SpecContrib == InitContrib /\ [][NextContrib]_vars

SpecCustomer == InitCustomer /\ [][NextCustomer]_vars

=============================================================================
